---------------------------- MODULE Spec2Model ----------------------------
(***************************************************************************)
(* Address book of task.py: Field validators (Phone, Birthday), Record,    *)
(* AddressBook and its JSON persistence.                                   *)
(*                                                                         *)
(* A Python str is a sequence of one-character strings.  None is the empty *)
(* sequence and an object reference is a one-element sequence, so that     *)
(* "x is None" is x = None.  A Record is held by value; the records the    *)
(* callers mutate are the ones reached through AddressBook.find.           *)
(***************************************************************************)
EXTENDS Integers, Sequences, FiniteSets, TLC

VARIABLES data, file, last

vars == <<data, file, last>>

(***************************************************************************)
(* Bounds of the model.                                                    *)
(***************************************************************************)
MaxPhones == 2

(***************************************************************************)
(* Strings.                                                                *)
(***************************************************************************)
None == <<>>

Some(x) == <<x>>

AsciiDigits == {"0", "1", "2", "3", "4", "5", "6", "7", "8", "9"}

\* U+00B2 SUPERSCRIPT TWO: str.isdigit() holds of it, though it is no decimal digit.
OtherDigits == {"sup2"}

\* str.isdigit(): every character is a digit and there is at least one.
isdigit(s) == Len(s) > 0 /\ \A i \in 1..Len(s) : s[i] \in AsciiDigits \cup OtherDigits

IsDecimal10(s) == Len(s) = 10 /\ \A i \in 1..Len(s) : s[i] \in AsciiDigits

DigitVal(c) ==
  CASE c = "0" -> 0 [] c = "1" -> 1 [] c = "2" -> 2 [] c = "3" -> 3 [] c = "4" -> 4
    [] c = "5" -> 5 [] c = "6" -> 6 [] c = "7" -> 7 [] c = "8" -> 8 [] c = "9" -> 9

RECURSIVE ToInt(_)
ToInt(s) == IF s = <<>> THEN 0 ELSE 10 * ToInt(SubSeq(s, 1, Len(s) - 1)) + DigitVal(s[Len(s)])

AllAscii(s) == \A i \in 1..Len(s) : s[i] \in AsciiDigits

(***************************************************************************)
(* datetime: the proleptic Gregorian calendar of the standard library.     *)
(***************************************************************************)
IsLeap(y) == y % 4 = 0 /\ (y % 100 # 0 \/ y % 400 = 0)

DaysInMonth(y, m) ==
  IF m = 2 THEN (IF IsLeap(y) THEN 29 ELSE 28)
  ELSE IF m \in {4, 6, 9, 11} THEN 30 ELSE 31

DaysBeforeYear(y) == (y - 1) * 365 + (y - 1) \div 4 - (y - 1) \div 100 + (y - 1) \div 400

RECURSIVE DaysBeforeMonth(_, _)
DaysBeforeMonth(y, m) == IF m = 1 THEN 0 ELSE DaysBeforeMonth(y, m - 1) + DaysInMonth(y, m - 1)

\* date.toordinal(): 1 for 01-01-0001.
Ordinal(d) == DaysBeforeYear(d.year) + DaysBeforeMonth(d.year, d.month) + d.day

Date(y, m, d) == [year |-> y, month |-> m, day |-> d]

ValidDate(y, m, d) == y \in 1..9999 /\ m \in 1..12 /\ d \in 1..DaysInMonth(y, m)

DayNames == <<"Monday", "Tuesday", "Wednesday", "Thursday", "Friday", "Saturday", "Sunday">>

\* strftime("%A") of the date with ordinal n.
DayName(n) == DayNames[((n + 6) % 7) + 1]

\* The positions of "-" in s.
Dashes(s) == {i \in 1..Len(s) : s[i] = "-"}

\* datetime.strptime(value, "%d-%m-%Y"): Some(date), or None for ValueError.
strptime(value) ==
  LET ds == Dashes(value) IN
  IF Cardinality(ds) # 2 THEN None
  ELSE LET i  == CHOOSE i \in ds : \A j \in ds : i <= j
           j  == CHOOSE j \in ds : \A i2 \in ds : i2 <= j
           dd == SubSeq(value, 1, i - 1)
           mm == SubSeq(value, i + 1, j - 1)
           yy == SubSeq(value, j + 1, Len(value))
       IN IF /\ Len(dd) \in 1..2 /\ Len(mm) \in 1..2 /\ Len(yy) = 4
             /\ AllAscii(dd) /\ AllAscii(mm) /\ AllAscii(yy)
             /\ ValidDate(ToInt(yy), ToInt(mm), ToInt(dd))
          THEN Some(Date(ToInt(yy), ToInt(mm), ToInt(dd)))
          ELSE None

(***************************************************************************)
(* Field validators.                                                       *)
(***************************************************************************)
\* Phone.__init__: the value is kept iff it passes.
PhoneAccepts(value) == isdigit(value) /\ Len(value) = 10

\* Birthday.__init__: the value kept is the raw string, not the parsed date.
BirthdayAccepts(value) == strptime(value) # None

(***************************************************************************)
(* Exceptions: the outcome of a call is the exception it raised, or NoExc. *)
(***************************************************************************)
NoExc == "none"

(***************************************************************************)
(* Record.                                                                 *)
(***************************************************************************)
Record(name) == [name |-> name, phones |-> <<>>, birthday |-> None]

add_phone(rec, phone_number) ==
  IF PhoneAccepts(phone_number)
  THEN [exc |-> NoExc, rec |-> [rec EXCEPT !.phones = Append(@, phone_number)]]
  ELSE [exc |-> "ValueError", rec |-> rec]

remove_phone(rec, phone_number) ==
  [exc |-> NoExc,
   rec |-> [rec EXCEPT !.phones = SelectSeq(@, LAMBDA p : p # phone_number)]]

edit_phone(rec, old_phone_number, new_phone_number) ==
  [exc |-> NoExc,
   rec |-> [rec EXCEPT !.phones =
              [i \in 1..Len(@) |-> IF @[i] = old_phone_number THEN new_phone_number ELSE @[i]]]]

\* add_birthday without the check of line 48: a second birthday replaces the first.
add_birthday_overwriting(rec, date) ==
  IF ~BirthdayAccepts(date) THEN [exc |-> "ValueError", rec |-> rec]
  ELSE [exc |-> NoExc, rec |-> [rec EXCEPT !.birthday = Some(date)]]

add_birthday(rec, date) ==
  IF rec.birthday # None THEN [exc |-> "ValueError", rec |-> rec]
  ELSE IF ~BirthdayAccepts(date) THEN [exc |-> "ValueError", rec |-> rec]
  ELSE [exc |-> NoExc, rec |-> [rec EXCEPT !.birthday = Some(date)]]

find_phone(rec, phone_number) ==
  IF \E i \in 1..Len(rec.phones) : rec.phones[i] = phone_number
  THEN Some(rec.phones[CHOOSE i \in 1..Len(rec.phones) :
                          /\ rec.phones[i] = phone_number
                          /\ \A j \in 1..(i - 1) : rec.phones[j] # phone_number])
  ELSE None

(***************************************************************************)
(* AddressBook: self.data is a dict, a sequence of (key, record) in        *)
(* insertion order with no key twice.                                      *)
(***************************************************************************)
Keys(d) == {d[i].key : i \in 1..Len(d)}

IndexOf(d, key) == CHOOSE i \in 1..Len(d) : d[i].key = key

\* dict.__setitem__: an existing key keeps its place.
SetItem(d, key, rec) ==
  IF key \in Keys(d)
  THEN [d EXCEPT ![IndexOf(d, key)] = [key |-> key, rec |-> rec]]
  ELSE Append(d, [key |-> key, rec |-> rec])

\* add_record that keeps the record already stored under the name.
add_record_first_wins(d, record) ==
  IF record.name \in Keys(d) THEN d ELSE Append(d, [key |-> record.name, rec |-> record])

add_record(d, record) == SetItem(d, record.name, record)

\* delete without the check of line 69: del on a missing key raises KeyError.
delete_unguarded(d, name) ==
  IF name \in Keys(d)
  THEN [exc |-> NoExc, data |-> SelectSeq(d, LAMBDA e : e.key # name)]
  ELSE [exc |-> "KeyError", data |-> d]

delete(d, name) ==
  IF name \in Keys(d)
  THEN [exc |-> NoExc, data |-> SelectSeq(d, LAMBDA e : e.key # name)]
  ELSE [exc |-> NoExc, data |-> d]

find(d, name) == IF name \in Keys(d) THEN Some(d[IndexOf(d, name)].rec) ELSE None

(***************************************************************************)
(* AddressBook.get_birthdays_per_week.                                     *)
(***************************************************************************)
\* date.replace(year=y): Some(date), or None for ValueError (29 February).
ReplaceYear(d, y) == IF ValidDate(y, d.month, d.day) THEN Some(Date(y, d.month, d.day)) ELSE None

\* Lines 83-100 for one user whose birthday is the date `birthday`: the exception
\* raised, whether the name is appended, and the day it is appended under.
WeekEntry(today, birthday) ==
  LET this_year == ReplaceYear(birthday, today.year) IN
  IF this_year = None THEN [exc |-> "ValueError", include |-> FALSE, day |-> "", delta |-> 0]
  ELSE
  LET next_year == ReplaceYear(this_year[1], today.year + 1)
      passed    == Ordinal(this_year[1]) < Ordinal(today)
  IN
  IF passed /\ next_year = None
  THEN [exc |-> "ValueError", include |-> FALSE, day |-> "", delta |-> 0]
  ELSE
  LET birthday_this_year == IF passed THEN next_year[1] ELSE this_year[1]
      delta_days  == Ordinal(birthday_this_year) - Ordinal(today)
      day_of_week == DayName(Ordinal(today) + delta_days)
      weekend     == day_of_week \in {"Saturday", "Sunday"}
      delta_days2 == IF weekend THEN delta_days + 1 ELSE delta_days
      day2        == IF weekend THEN "Monday" ELSE day_of_week
  IN
  IF delta_days < 0 THEN [exc |-> NoExc, include |-> FALSE, day |-> day_of_week, delta |-> delta_days]
  ELSE [exc |-> NoExc, include |-> (0 <= delta_days2 /\ delta_days2 < 7),
        day |-> day2, delta |-> delta_days2]

\* Line 82, user.birthday.value.date(): user.birthday is None or a Birthday whose
\* value is the str it was built from (line 27); neither None has .value nor a
\* str has .date(), so the attribute lookup raises.
birthday_date(user) ==
  IF user.birthday = None
  THEN [exc |-> "AttributeError", date |-> None]
  ELSE [exc |-> "AttributeError", date |-> None]

\* birthdays_by_day[day].append(name) on a defaultdict(list).
AppendName(by_day, day, name) ==
  IF \E i \in 1..Len(by_day) : by_day[i].day = day
  THEN [i \in 1..Len(by_day) |->
          IF by_day[i].day = day
          THEN [by_day[i] EXCEPT !.names = Append(@, name)]
          ELSE by_day[i]]
  ELSE Append(by_day, [day |-> day, names |-> <<name>>])

\* The loop of lines 80-100 over d[k..], with birthdays_by_day as built so far.
RECURSIVE BirthdaysLoop(_, _, _, _)
BirthdaysLoop(d, k, today, by_day) ==
  IF k > Len(d) THEN [exc |-> NoExc, ret |-> by_day]
  ELSE
  LET user == d[k].rec
      bd   == birthday_date(user)
  IN
  IF bd.exc # NoExc THEN [exc |-> bd.exc, ret |-> <<>>]
  ELSE
  LET e == WeekEntry(today, bd.date[1]) IN
  IF e.exc # NoExc THEN [exc |-> e.exc, ret |-> <<>>]
  ELSE BirthdaysLoop(d, k + 1, today,
                     IF e.include THEN AppendName(by_day, e.day, user.name) ELSE by_day)

\* The lines printed (one per day), or the exception raised.
get_birthdays_per_week(d, today) == BirthdaysLoop(d, 1, today, <<>>)

(***************************************************************************)
(* Persistence.  The file is missing, holds text that is no JSON, or holds *)
(* the JSON document {"records": {name: {"phones": [...], "birthday": ..}}}*)
(* as the sequence of its entries.                                         *)
(***************************************************************************)
MissingFile == [kind |-> "missing", records |-> <<>>]

GarbageFile == [kind |-> "garbage", records |-> <<>>]

\* Lines 106-111: data_to_save["records"].
data_to_save(d) ==
  [i \in 1..Len(d) |->
     [name     |-> d[i].key,
      phones   |-> [j \in 1..Len(d[i].rec.phones) |-> d[i].rec.phones[j]],
      birthday |-> IF d[i].rec.birthday # None THEN Some(d[i].rec.birthday[1]) ELSE None]]

save_to_file(d) == [kind |-> "json", records |-> data_to_save(d)]

\* Lines 124-125: record.add_phone(phone_str) for phone_strs[k..].
RECURSIVE AddPhones(_, _, _)
AddPhones(rec, phone_strs, k) ==
  IF k > Len(phone_strs) THEN [exc |-> NoExc, rec |-> rec]
  ELSE LET r == add_phone(rec, phone_strs[k]) IN
       IF r.exc # NoExc THEN r ELSE AddPhones(r.rec, phone_strs, k + 1)

\* Lines 123-127: the Record of one entry of the document.
LoadRecord(entry) ==
  LET r == AddPhones(Record(entry.name), entry.phones, 1) IN
  IF r.exc # NoExc THEN r
  ELSE IF entry.birthday # None /\ entry.birthday[1] # <<>>
       THEN add_birthday(r.rec, entry.birthday[1])
       ELSE r

\* Lines 122-128 over records[k..], with self.data as built so far.
RECURSIVE LoadLoop(_, _, _)
LoadLoop(records, k, d) ==
  IF k > Len(records) THEN [exc |-> NoExc, data |-> d]
  ELSE LET r == LoadRecord(records[k]) IN
       IF r.exc # NoExc THEN [exc |-> r.exc, data |-> d]
       ELSE LoadLoop(records, k + 1, SetItem(d, records[k].name, r.rec))

\* load_from_file with line 121 before the open: the book is emptied before the
\* file is known to be readable.
load_from_file_clearing(d, f) ==
  IF f.kind = "missing" THEN [exc |-> NoExc, data |-> <<>>, printed |-> TRUE]
  ELSE IF f.kind = "garbage" THEN [exc |-> NoExc, data |-> <<>>, printed |-> TRUE]
  ELSE LET r == LoadLoop(f.records, 1, <<>>) IN
       [exc |-> r.exc, data |-> r.data, printed |-> FALSE]

\* The exception raised, self.data after the call, and whether line 131 printed.
load_from_file(d, f) ==
  IF f.kind = "missing" THEN [exc |-> NoExc, data |-> d, printed |-> TRUE]
  ELSE IF f.kind = "garbage" THEN [exc |-> NoExc, data |-> d, printed |-> TRUE]
  ELSE LET r == LoadLoop(f.records, 1, <<>>) IN
       [exc |-> r.exc, data |-> r.data, printed |-> FALSE]

(***************************************************************************)
(* Inputs.                                                                 *)
(***************************************************************************)
Names == {"Ann", "Bob"}

Phone1 == <<"0", "1", "2", "3", "4", "5", "6", "7", "8", "9">>

Phone2 == <<"5", "5", "5", "0", "1", "0", "0", "1", "2", "3">>

ShortPhone == <<"1", "2", "3">>

SupPhone == <<"sup2", "sup2", "sup2", "sup2", "sup2", "sup2", "sup2", "sup2", "sup2", "sup2">>

PhoneInputs == {Phone1, SupPhone, ShortPhone}

\* 15-06-1990 and 09-06-1995
AnnBirthday == <<"1", "5", "-", "0", "6", "-", "1", "9", "9", "0">>

BobBirthday == <<"0", "9", "-", "0", "6", "-", "1", "9", "9", "5">>

\* 29-02-2023: no such day.
NoSuchDay == <<"2", "9", "-", "0", "2", "-", "2", "0", "2", "3">>

\* 15/06/1990: not the format.
SlashDate == <<"1", "5", "/", "0", "6", "/", "1", "9", "9", "0">>

DateInputs == {AnnBirthday, BobBirthday, NoSuchDay, SlashDate}

BirthdayOf(name) == IF name = "Ann" THEN AnnBirthday ELSE BobBirthday

\* Monday 10-06-2024 and Sunday 09-06-2024.
Todays == {Date(2024, 6, 10), Date(2024, 6, 9)}

\* A record as a caller builds it before add_record (lines 233-235): Record(name),
\* add_phone of each phone, add_birthday of the date if one is given.
Contact(name, phone_strs, date) ==
  LET r == AddPhones(Record(name), phone_strs, 1).rec IN
  IF date = None THEN r ELSE add_birthday(r, date[1]).rec

BookRecords ==
  UNION {{Contact(n, ps, b) : ps \in {<<>>, <<Phone1, Phone2>>},
                              b \in {None, Some(BirthdayOf(n))}} : n \in Names}

(***************************************************************************)
(* State: data is AddressBook.data, file is the content of the file that   *)
(* save_to_file and load_from_file are given, last is the last call: its   *)
(* name, its arguments, the exception it raised, what it returned or       *)
(* printed, and whether its lookup found what it looked for.               *)
(***************************************************************************)
Call(op, args, exc, ret, hit) ==
  [op |-> op, args |-> args, exc |-> exc, ret |-> ret, hit |-> hit]

Init ==
  /\ data = <<>>
  /\ file \in {MissingFile, GarbageFile}
  /\ last = Call("AddressBook", <<>>, NoExc, None, FALSE)

\* The record reached through find(name), mutated in place.
Mutate(d, name, rec) == [d EXCEPT ![IndexOf(d, name)].rec = rec]

AddRecord(record) ==
  /\ data' = add_record(data, record)
  /\ last' = Call("add_record", <<record>>, NoExc, None, record.name \in Keys(data))
  /\ UNCHANGED file

Delete(name) ==
  LET r == delete(data, name) IN
  /\ data' = r.data
  /\ last' = Call("delete", <<name>>, r.exc, None, name \in Keys(data))
  /\ UNCHANGED file

Find(name) ==
  /\ last' = Call("find", <<name>>, NoExc, find(data, name), name \in Keys(data))
  /\ UNCHANGED <<data, file>>

AddPhone(name, phone_number) ==
  /\ find(data, name) # None
  /\ Len(find(data, name)[1].phones) < MaxPhones
  /\ LET r == add_phone(find(data, name)[1], phone_number) IN
     /\ data' = Mutate(data, name, r.rec)
     /\ last' = Call("add_phone", <<name, phone_number>>, r.exc, None, FALSE)
  /\ UNCHANGED file

RemovePhone(name, phone_number) ==
  /\ find(data, name) # None
  /\ LET rec == find(data, name)[1]
         r   == remove_phone(rec, phone_number)
     IN /\ data' = Mutate(data, name, r.rec)
        /\ last' = Call("remove_phone", <<name, phone_number>>, r.exc, None,
                        find_phone(rec, phone_number) # None)
  /\ UNCHANGED file

EditPhone(name, old_phone_number, new_phone_number) ==
  /\ find(data, name) # None
  /\ LET rec == find(data, name)[1]
         r   == edit_phone(rec, old_phone_number, new_phone_number)
     IN /\ data' = Mutate(data, name, r.rec)
        /\ last' = Call("edit_phone", <<name, old_phone_number, new_phone_number>>, r.exc,
                        None, find_phone(rec, old_phone_number) # None)
  /\ UNCHANGED file

FindPhone(name, phone_number) ==
  /\ find(data, name) # None
  /\ LET rec == find(data, name)[1] IN
     last' = Call("find_phone", <<name, phone_number>>, NoExc, find_phone(rec, phone_number),
                  find_phone(rec, phone_number) # None)
  /\ UNCHANGED <<data, file>>

AddBirthday(name, date) ==
  /\ find(data, name) # None
  /\ LET rec == find(data, name)[1]
         r   == add_birthday(rec, date)
     IN /\ data' = Mutate(data, name, r.rec)
        /\ last' = Call("add_birthday", <<name, date>>, r.exc, None, rec.birthday # None)
  /\ UNCHANGED file

GetBirthdaysPerWeek(today) ==
  LET r == get_birthdays_per_week(data, today) IN
  /\ last' = Call("get_birthdays_per_week", <<today>>, r.exc, r.ret, FALSE)
  /\ UNCHANGED <<data, file>>

SaveToFile ==
  /\ file' = save_to_file(data)
  /\ last' = Call("save_to_file", <<>>, NoExc, None, FALSE)
  /\ UNCHANGED data

LoadFromFile ==
  LET r == load_from_file(data, file) IN
  /\ data' = r.data
  /\ last' = Call("load_from_file", <<>>, r.exc,
                  IF r.printed THEN Some("Error loading data from file.") ELSE None,
                  file.kind = "json")
  /\ UNCHANGED file

\* The file is removed, or overwritten with text that is no JSON, by something else.
RemoveFile ==
  /\ file' = MissingFile
  /\ last' = Call("os.remove", <<>>, NoExc, None, FALSE)
  /\ UNCHANGED data

CorruptFile ==
  /\ file' = GarbageFile
  /\ last' = Call("os.write", <<>>, NoExc, None, FALSE)
  /\ UNCHANGED data

(***************************************************************************)
(* Spec: the book and its file.  Records arrive built; the phone edit of   *)
(* the "change" command (line 241) and the failing validations act on them.*)
(***************************************************************************)
Next ==
  \/ \E r \in BookRecords : AddRecord(r)
  \/ \E n \in Names : Delete(n)
  \/ \E n \in Names : EditPhone(n, Phone1, ShortPhone)
  \/ \E n \in Names : AddPhone(n, ShortPhone)
  \/ \E n \in Names : AddBirthday(n, NoSuchDay)
  \/ \E t \in Todays : GetBirthdaysPerWeek(t)
  \/ SaveToFile
  \/ LoadFromFile
  \/ RemoveFile
  \/ CorruptFile

Spec == Init /\ [][Next]_vars

(***************************************************************************)
(* SpecRecord: one record, reached through find, and every Record method.  *)
(***************************************************************************)
NextRecord ==
  \/ AddRecord(Record("Ann"))
  \/ \E n \in Names : Delete(n)
  \/ \E n \in Names : Find(n)
  \/ \E p \in PhoneInputs : AddPhone("Ann", p)
  \/ \E p \in PhoneInputs : RemovePhone("Ann", p)
  \/ \E p \in PhoneInputs : FindPhone("Ann", p)
  \/ \E old, new \in PhoneInputs : EditPhone("Ann", old, new)
  \/ \E dt \in DateInputs : AddBirthday("Ann", dt)

SpecRecord == Init /\ [][NextRecord]_vars

(***************************************************************************)
(* Properties.                                                             *)
(***************************************************************************)
\* The same names, and under every name the same phones in the same order and the
\* same birthday or none.
SameBook(d1, d2) ==
  /\ Keys(d1) = Keys(d2)
  /\ \A n \in Keys(d1) :
       /\ find(d1, n)[1].phones = find(d2, n)[1].phones
       /\ find(d1, n)[1].birthday = find(d2, n)[1].birthday

\* C1: save_to_file followed by load_from_file of the same file yields a book with
\* the same names and, for every name, the same phone list and the same birthday.
C1_SaveLoadRoundTrip ==
  [][(last.op = "save_to_file" /\ last'.op = "load_from_file")
       => (last'.exc = NoExc /\ SameBook(data, data'))]_vars

\* C2: load_from_file on a file that is missing or holds no valid JSON does not
\* raise and leaves the book holding exactly the records it held.
C2_FailedOpenKeepsBook ==
  [][(last'.op = "load_from_file" /\ file.kind \in {"missing", "garbage"})
       => (last'.exc = NoExc /\ data' = data)]_vars

\* A load of a file that holds no JSON has just returned on a book that holds a record.
C2_Witness ==
  /\ last.op = "load_from_file"
  /\ file.kind = "garbage"
  /\ last.ret # None
  /\ data # <<>>

\* The names printed by get_birthdays_per_week, and the day a name is printed under.
Reported(ret) == UNION {{ret[i].names[j] : j \in 1..Len(ret[i].names)} : i \in 1..Len(ret)}

ReportedUnder(ret, day) ==
  UNION {{ret[i].names[j] : j \in 1..Len(ret[i].names)} : i \in {k \in 1..Len(ret) : ret[k].day = day}}

\* The ordinal of the next occurrence of the birthday b on or after today.
NextOccurrence(today, b) ==
  LET this == Ordinal(Date(today.year, b.month, b.day)) IN
  IF this < Ordinal(today) THEN Ordinal(Date(today.year + 1, b.month, b.day)) ELSE this

IsWeekend(n) == DayName(n) \in {"Saturday", "Sunday"}

\* delta_days after the weekend shift.
ShiftedDelta(today, b) ==
  LET n == NextOccurrence(today, b) IN
  (n - Ordinal(today)) + (IF IsWeekend(n) THEN 1 ELSE 0)

\* The records of the book that have a birthday.
WithBirthday(d) == SelectSeq(d, LAMBDA e : e.rec.birthday # None)

\* C3: get_birthdays_per_week leaves out a contact whose next birthday is more than
\* 6 days after today and prints a contact whose delta_days, after the weekend
\* shift, is within 0..6.
C3_WeeklyWindow ==
  last.op = "get_birthdays_per_week" =>
    \A i \in 1..Len(data) :
      data[i].rec.birthday # None =>
        LET today == last.args[1]
            b     == strptime(data[i].rec.birthday[1])[1]
            name  == data[i].rec.name
        IN /\ (NextOccurrence(today, b) - Ordinal(today) > 6) => name \notin Reported(last.ret)
           /\ (ShiftedDelta(today, b) \in 0..6) => name \in Reported(last.ret)

\* C4: with a record that has no birthday in the book, get_birthdays_per_week does
\* not raise on it and does what it does on the book without that record.
C4_NoBirthdaySkipped ==
  (last.op = "get_birthdays_per_week" /\ \E i \in 1..Len(data) : data[i].rec.birthday = None) =>
    LET rest == get_birthdays_per_week(WithBirthday(data), last.args[1]) IN
    /\ last.exc = rest.exc
    /\ last.ret = rest.ret

\* The methods of Record that act on the record reached through find.
RecordMethods == {"add_phone", "remove_phone", "edit_phone", "add_birthday", "find_phone"}

\* C5: add_birthday on a Record that has a birthday fails whatever the value, and a
\* Record keeps the birthday its first successful add_birthday gave it.
C5_OneBirthday ==
  [][/\ (last'.op = "add_birthday" /\ find(data, last'.args[1])[1].birthday # None)
          => (last'.exc = "ValueError" /\ data' = data)
     /\ last'.op \in RecordMethods =>
          \A n \in Keys(data) :
            find(data, n)[1].birthday # None =>
              find(data', n)[1].birthday = find(data, n)[1].birthday]_vars

\* A second add_birthday, with a valid date other than the one held, has just failed.
C5_Witness ==
  /\ last.op = "add_birthday"
  /\ last.hit
  /\ last.exc = "ValueError"
  /\ BirthdayAccepts(last.args[2])
  /\ find(data, last.args[1])[1].birthday # Some(last.args[2])

\* C6: every phone held in every Record is a string of exactly 10 decimal digits.
C6_PhonesAreTenDigits ==
  \A i \in 1..Len(data) :
    \A j \in 1..Len(data[i].rec.phones) : IsDecimal10(data[i].rec.phones[j])

\* Every key is the name of the record under it, and no key is held twice.
KeysAreNames ==
  /\ \A i \in 1..Len(data) : data[i].key = data[i].rec.name
  /\ \A i, j \in 1..Len(data) : data[i].key = data[j].key => i = j

\* C7: every key of the book is the name of the Record under it, and add_record(r)
\* maps r's name to r, in place of any record held under that name, and changes no
\* other entry.
C7_KeysAndLastWriteWins ==
  /\ []KeysAreNames
  /\ [][last'.op = "add_record" =>
          LET r == last'.args[1] IN
          /\ find(data', r.name) = Some(r)
          /\ Keys(data') = Keys(data) \cup {r.name}
          /\ \A n \in Keys(data) \ {r.name} : find(data', n) = find(data, n)]_vars

\* add_record has just replaced a record, with one of other content, beside another entry.
C7_Witness ==
  /\ last.op = "add_record"
  /\ last.hit
  /\ Len(data) = 2
  /\ find(data, last.args[1].name) = Some(last.args[1])
  /\ last.args[1].phones # <<>>

\* C8: a lookup that misses is no error and changes nothing: delete of a name not in
\* the book, remove_phone and edit_phone of a value not among the phones, find and
\* find_phone, which return None.
C8_MissesAreNoOps ==
  [][/\ (last'.op \in {"delete", "find"} /\ last'.args[1] \notin Keys(data))
          => (last'.exc = NoExc /\ data' = data /\ last'.ret = None)
     /\ (/\ last'.op \in {"remove_phone", "edit_phone", "find_phone"}
         /\ \A j \in 1..Len(find(data, last'.args[1])[1].phones) :
               find(data, last'.args[1])[1].phones[j] # last'.args[2])
          => (last'.exc = NoExc /\ data' = data /\ last'.ret = None)]_vars

\* delete of a name that is not in the book has just returned, on a book that holds
\* a record with phones.
C8_Witness ==
  /\ last.op = "delete"
  /\ ~last.hit
  /\ \E i \in 1..Len(data) : data[i].rec.phones # <<>>

\* C9: a contact is printed under "Monday" when its birthday falls on Saturday or
\* Sunday and under the weekday of the birthday otherwise; with today Monday
\* 10-06-2024, 15-06-1990 is printed under "Monday" and 09-06-1995 is not printed.
C9_WeekendToMonday ==
  last.op = "get_birthdays_per_week" =>
    LET today == last.args[1] IN
    /\ \A i \in 1..Len(data) :
         data[i].rec.name \in Reported(last.ret) =>
           LET n == NextOccurrence(today, strptime(data[i].rec.birthday[1])[1]) IN
           data[i].rec.name \in
             ReportedUnder(last.ret, IF IsWeekend(n) THEN "Monday" ELSE DayName(n))
    /\ today = Date(2024, 6, 10) =>
         \A i \in 1..Len(data) :
           /\ data[i].rec.birthday = Some(AnnBirthday)
                => data[i].rec.name \in ReportedUnder(last.ret, "Monday")
           /\ data[i].rec.birthday = Some(BobBirthday)
                => data[i].rec.name \notin Reported(last.ret)

\* C10: a validation that fails changes nothing: add_phone and add_birthday leave
\* the Record as it was, and a load_from_file that fails on a stored phone or
\* birthday leaves the book holding the records it held.
C10_NoPartialMutation ==
  [][(last'.op \in {"add_phone", "add_birthday", "load_from_file"} /\ last'.exc # NoExc)
       => data' = data]_vars

=============================================================================
